---- MODULE Spec2Model ----
(***************************************************************************)
(* The data-loading and query layer of agentco: load_json_to_dataframe,    *)
(* DataSourceAnalyzer.from_day_folder and the DataSourceToolset (singleton *)
(* cache, construction, the two query tools, the documentation read, the   *)
(* quality digest, close and clear_cache).                                 *)
(*                                                                         *)
(* A listing record is a JSON object.  The records of SpecLoad show only    *)
(* filename and an optional field named from_period; the records of the    *)
(* other specifications carry the standard fields rows, status,            *)
(* is_duplicated, file_size and uploaded_at as well.  FileEntry, the        *)
(* record model that the loader does not use, is checked on its own.       *)
(***************************************************************************)
EXTENDS Integers, Sequences, FiniteSets, TLC

\* ---------------------------------------------------------------- bounds
MaxLen == 1
MaxObjs == 2

\* ------------------------------------------------------ program constants
RowCap == 100

\* ------------------------------------------------------------ input sets
Sources == {"s1", "s2"}
SourceOrder == <<"s1", "s2">>
Filenames == {"A", "B"}
Periods == {"today", "last_weekday"}
Absent == "<absent>"
NaN == "NaN"
NoText == "<none>"
\* The content of a CV file: one with LF line ends, one with CR LF line ends.
Texts == {"cv-text", "cv\r\ntext"}
DayFolders == {"d1", "d2"}
DsFolders == {"f1", "f2"}

\* A record of a listing: from_period = Absent when the JSON object has no such key.
InputRecords == [filename : Filenames, from_period : Periods \cup {Absent}]

\* The keys of the JSON object file_data.
RecordKeys(file_data) ==
    {k \in DOMAIN file_data : k # "from_period" \/ file_data.from_period # Absent}

RECURSIVE SeqsUpTo(_, _)
SeqsUpTo(S, n) ==
    IF n = 0 THEN {<<>>}
    ELSE LET shorter == SeqsUpTo(S, n - 1)
         IN  shorter \cup {Append(s, x) : s \in {t \in shorter : Len(t) = n - 1}, x \in S}

RECURSIVE SumLen(_, _)
SumLen(data, order) ==
    IF order = <<>> THEN 0 ELSE Len(data[Head(order)]) + SumLen(data, Tail(order))

\* The parsed content of a listing file: source_id -> list of records, at most n records.
JsonDocs(n) ==
    {data \in [Sources -> SeqsUpTo(InputRecords, n)] : SumLen(data, SourceOrder) <= n}

\* ------------------------------------------------------ python outcomes
Ok(v) == [ok |-> TRUE, exc |-> "", val |-> <<v>>]
Raise(e) == [ok |-> FALSE, exc |-> e, val |-> <<>>]
Val(r) == r.val[1]

\* ------------------------------------------------------------ DataFrames
\* pd.DataFrame(rows): the columns are the union of the rows' keys, a missing cell is NaN.
DataFrame(rows) ==
    LET cols == UNION {DOMAIN rows[i] : i \in 1..Len(rows)}
    IN  [cols |-> cols,
         rows |-> [i \in 1..Len(rows) |->
                     [c \in cols |-> IF c \in DOMAIN rows[i] THEN rows[i][c] ELSE NaN]]]

RECURSIVE SelectSeq2(_, _, _)
SelectSeq2(rows, col, v) ==
    IF rows = <<>> THEN <<>>
    ELSE IF Head(rows)[col] = v
         THEN <<Head(rows)>> \o SelectSeq2(Tail(rows), col, v)
         ELSE SelectSeq2(Tail(rows), col, v)

\* df[df[col] == v].copy(); the caller has checked col \in df.cols.
FilterEq(df, col, v) == [cols |-> df.cols, rows |-> SelectSeq2(df.rows, col, v)]

\* df[col] = v
AssignColumn(df, col, v) ==
    [cols |-> df.cols \cup {col},
     rows |-> [i \in 1..Len(df.rows) |->
                 [c \in df.cols \cup {col} |-> IF c = col THEN v ELSE df.rows[i][c]]]]

Widen(row, cols) == [c \in cols |-> IF c \in DOMAIN row THEN row[c] ELSE NaN]

RECURSIVE DropDuplicateNames(_, _)
DropDuplicateNames(rows, seen) ==
    IF rows = <<>> THEN <<>>
    ELSE IF Head(rows)["filename"] \in seen
         THEN DropDuplicateNames(Tail(rows), seen)
         ELSE <<Head(rows)>> \o DropDuplicateNames(Tail(rows), seen \cup {Head(rows)["filename"]})

ConcatDedup(a, b) ==
    LET cols == a.cols \cup b.cols
        all == [i \in 1..Len(a.rows) |-> Widen(a.rows[i], cols)]
               \o [i \in 1..Len(b.rows) |-> Widen(b.rows[i], cols)]
    IN  [cols |-> cols, rows |-> DropDuplicateNames(all, {})]

\* A concatenation that puts the rows of b first.
ConcatSecondFirst(a, b) ==
    LET cols == a.cols \cup b.cols
    IN  [cols |-> cols,
         rows |-> [i \in 1..Len(b.rows) |-> Widen(b.rows[i], cols)]
                  \o [i \in 1..Len(a.rows) |-> Widen(a.rows[i], cols)]]

\* pd.concat([a, b], ignore_index=True)
Concat(a, b) ==
    LET cols == a.cols \cup b.cols
    IN  [cols |-> cols,
         rows |-> [i \in 1..Len(a.rows) |-> Widen(a.rows[i], cols)]
                  \o [i \in 1..Len(b.rows) |-> Widen(b.rows[i], cols)]]

\* ------------------------------------------------------ data_converter.py
RECURSIVE FlattenRows(_, _)
FlattenRows(data, order) ==
    IF order = <<>> THEN <<>>
    ELSE LET source_id == Head(order)
             files == data[source_id]
         IN  [i \in 1..Len(files) |->
                [c \in {"source_id"} \cup RecordKeys(files[i]) |->
                   IF c = "source_id" THEN source_id ELSE files[i][c]]]
             \o FlattenRows(data, Tail(order))

load_json_to_dataframe(file) ==
    IF ~file.exists THEN Raise("FileNotFoundError")
    ELSE Ok(DataFrame(FlattenRows(file.data, SourceOrder)))

\* open(md_file, "r", encoding="utf-8").read(): text mode turns every line end
\* of the file into "\n".
ReadText(content) == IF content = "cv\r\ntext" THEN "cv\ntext" ELSE content

load_markdown_explanation(fsys, source_id, datasource_folder) ==
    LET text == fsys.docs[datasource_folder][source_id]
    IN  IF text = NoText THEN Raise("FileNotFoundError") ELSE Ok(ReadText(text))

from_day_folder(fsys, source_id, day_folder, datasource_folder) ==
    LET daily == load_json_to_dataframe(fsys.files[day_folder].today)
        last == load_json_to_dataframe(fsys.files[day_folder].last_weekday)
    IN  IF ~daily.ok THEN Raise(daily.exc)
        ELSE IF ~last.ok THEN Raise(last.exc)
        ELSE IF "source_id" \notin Val(daily).cols \/ "source_id" \notin Val(last).cols
        THEN Raise("KeyError")
        ELSE LET daily_source_df ==
                     AssignColumn(FilterEq(Val(daily), "source_id", source_id), "from", "today")
                 last_weekday_source_df ==
                     AssignColumn(FilterEq(Val(last), "source_id", source_id),
                                  "from", "last_weekday")
                 data == Concat(daily_source_df, last_weekday_source_df)
                 markdown == load_markdown_explanation(fsys, source_id, datasource_folder)
             IN  IF ~markdown.ok THEN Raise(markdown.exc)
                 ELSE Ok([source_id |-> source_id, data |-> data,
                          markdown_explanation |-> Val(markdown)])

\* ------------------------------------------------ duckdb connections
CountQuery == "SELECT COUNT(*) FROM data"
SelectAllQuery == "SELECT * FROM data"
SyntaxErrorQuery == "SELEC * FROM data"
UnknownColumnQuery == "SELECT no_such_column FROM data"
DropViewQuery == "DROP VIEW data"
RangeSize ==
    ("SELECT * FROM range(0)" :> 0) @@ ("SELECT * FROM range(100)" :> 100)
    @@ ("SELECT * FROM range(101)" :> 101) @@ ("SELECT * FROM range(250)" :> 250)
RangeQueries == DOMAIN RangeSize
\* The aggregate query of validate_data_quality and the columns it names.
DigestQuery == "SELECT COUNT(*) as total_files, ... FROM data"
DigestColumns == {"source_id", "rows", "is_duplicated", "status", "uploaded_at", "file_size"}
MalformedQueries == {SyntaxErrorQuery, UnknownColumnQuery}
SelectQueries == {CountQuery, SelectAllQuery} \cup RangeQueries
AllQueries == SelectQueries \cup MalformedQueries \cup {DropViewQuery}

\* duckdb.connect(":memory:") followed by register("data", df)
Connect(df) == [closed |-> FALSE, data |-> <<df>>]

Relation(conn, rows, cols) == [ok |-> TRUE, exc |-> "", rel |-> <<[cols |-> cols, rows |-> rows]>>, conn |-> conn]
Failure(conn, e) == [ok |-> FALSE, exc |-> e, rel |-> <<>>, conn |-> conn]

\* SUM(CASE WHEN ... THEN 1 ELSE 0 END), hits being the rows that meet the
\* condition: NULL (<<>>) over no rows.
SumCase(rows, hits) == IF rows = <<>> THEN <<>> ELSE <<Cardinality(hits)>>

\* SUM(col) over the cells of a column, numbers <<n>> or NULLs <<>>: NULL when no
\* number is summed.
RECURSIVE SumColumn(_)
SumColumn(cells) ==
    IF cells = <<>> THEN <<>>
    ELSE LET rest == SumColumn(Tail(cells))
             v == Head(cells)
         IN  IF v = <<>> THEN rest
             ELSE IF rest = <<>> THEN v ELSE <<v[1] + rest[1]>>

\* MIN(col) and MAX(col): NULL over no rows.
Least(S) == IF S = {} THEN <<>> ELSE <<CHOOSE x \in S : \A y \in S : x <= y>>
Greatest(S) == IF S = {} THEN <<>> ELSE <<CHOOSE x \in S : \A y \in S : x >= y>>

\* The one row the aggregate query of validate_data_quality yields.
DigestRow(rows) ==
    [total_files |-> Len(rows),
     unique_sources |-> Cardinality({rows[i].source_id : i \in 1..Len(rows)}),
     empty_files |-> SumCase(rows, {i \in 1..Len(rows) : rows[i].rows = 0}),
     duplicates |-> SumCase(rows, {i \in 1..Len(rows) : rows[i].is_duplicated}),
     failed_files |-> SumCase(rows, {i \in 1..Len(rows) : rows[i].status = "FAILED"}),
     stopped_files |-> SumCase(rows, {i \in 1..Len(rows) : rows[i].status = "STOPPED"}),
     successful_files |-> SumCase(rows, {i \in 1..Len(rows) : rows[i].status = "SUCCESS"}),
     earliest_upload |-> Least({rows[i].uploaded_at : i \in 1..Len(rows)}),
     latest_upload |-> Greatest({rows[i].uploaded_at : i \in 1..Len(rows)}),
     total_rows |-> SumColumn([i \in 1..Len(rows) |-> <<rows[i].rows>>]),
     total_size_bytes |-> SumColumn([i \in 1..Len(rows) |-> rows[i].file_size])]

\* conn.query(sql): a SELECT yields a relation; any other statement is run as it is
\* and yields None.
Execute(conn, sql) ==
    IF conn.closed THEN Failure(conn, "ConnectionException")
    ELSE IF sql = SyntaxErrorQuery THEN Failure(conn, "ParserException")
    ELSE IF sql \in RangeQueries
    THEN Relation(conn, [i \in 1..RangeSize[sql] |-> [range |-> i - 1]], {"range"})
    ELSE IF conn.data = <<>> THEN Failure(conn, "CatalogException")
    ELSE IF sql = UnknownColumnQuery THEN Failure(conn, "BinderException")
    ELSE IF sql = CountQuery
    THEN Relation(conn, <<[count_star |-> Len(conn.data[1].rows)]>>, {"count_star"})
    ELSE IF sql = SelectAllQuery
    THEN Relation(conn, conn.data[1].rows, conn.data[1].cols)
    ELSE IF sql = DigestQuery
    THEN IF ~(DigestColumns \subseteq conn.data[1].cols) THEN Failure(conn, "BinderException")
         ELSE LET row == DigestRow(conn.data[1].rows)
              IN  Relation(conn, <<row>>, DOMAIN row)
    ELSE [ok |-> TRUE, exc |-> "", rel |-> <<>>, conn |-> [conn EXCEPT !.data = <<>>]]

\* ------------------------------------------------------------- tools.py
Out(kind, body, notice, total, more, text) ==
    [kind |-> kind, body |-> body, notice |-> notice, total |-> total, more |-> more,
     text |-> text]
Message(kind, text) == Out(kind, <<>>, FALSE, 0, 0, text)

\* DataFrame.to_markdown: one line per row, led by the row index unless index=False.
to_markdown(df, index) ==
    [i \in 1..Len(df.rows) |-> [index |-> IF index THEN <<i - 1>> ELSE <<>>, row |-> df.rows[i]]]

head(df, n) == [cols |-> df.cols, rows |-> SubSeq(df.rows, 1, IF Len(df.rows) < n THEN Len(df.rows) ELSE n)]

FormatResultOffByOne(result) ==
    IF Len(result.rows) = 0 THEN Message("no_results", "")
    ELSE IF Len(result.rows) >= RowCap
    THEN Out("truncated", to_markdown(head(result, RowCap), TRUE), TRUE,
             Len(result.rows), Len(result.rows) - RowCap, "")
    ELSE Out("table", to_markdown(result, FALSE), FALSE, 0, 0, "")

FormatResult(result) ==
    IF Len(result.rows) = 0 THEN Message("no_results", "")
    ELSE IF Len(result.rows) > RowCap
    THEN Out("truncated", to_markdown(head(result, RowCap), TRUE), TRUE,
             Len(result.rows), Len(result.rows) - RowCap, "")
    ELSE Out("table", to_markdown(result, FALSE), FALSE, 0, 0, "")

\* The try block shared by the two query tools: query, to_df, format; any exception
\* becomes the "Error executing query" message.
RunQuery(conn, sql_query) ==
    LET r == Execute(conn, sql_query)
    IN  [conn |-> r.conn,
         out |-> IF ~r.ok THEN Message("query_error", r.exc)
                 ELSE IF r.rel = <<>> THEN Message("query_error", "AttributeError")
                 ELSE FormatResult(r.rel[1])]

query_today_data_poisoned(self, sql_query) ==
    IF self.today_data = <<>> THEN [self |-> self, out |-> Message("not_loaded", "")]
    ELSE LET r == RunQuery(self.conn_today[1], sql_query)
         IN  [self |-> IF r.out.kind = "query_error"
                       THEN [self EXCEPT !.conn_today = <<[r.conn EXCEPT !.closed = TRUE]>>]
                       ELSE [self EXCEPT !.conn_today = <<r.conn>>],
              out |-> r.out]

query_today_data(self, sql_query) ==
    IF self.today_data = <<>> THEN [self |-> self, out |-> Message("not_loaded", "")]
    ELSE LET r == RunQuery(self.conn_today[1], sql_query)
         IN  [self |-> [self EXCEPT !.conn_today = <<r.conn>>], out |-> r.out]

query_today_and_last_weekday_data(self, sql_query) ==
    IF self.data = <<>> THEN [self |-> self, out |-> Message("not_loaded", "")]
    ELSE LET r == RunQuery(self.conn_all[1], sql_query)
         IN  [self |-> [self EXCEPT !.conn_all = <<r.conn>>], out |-> r.out]

read_data_source_cv_of_source(self) ==
    IF self.markdown_explanation = <<>> THEN Message("cv_not_loaded", "")
    ELSE Message("cv", self.source_id)

read_data_source_cv(self) ==
    IF self.markdown_explanation = <<>> THEN Message("cv_not_loaded", "")
    ELSE Message("cv", self.markdown_explanation[1])

\* round(num / den) to an integer, halves to the even neighbour; den > 0.
RoundHalfEven(num, den) ==
    LET q == num \div den
        r == num % den
    IN  IF 2 * r < den THEN q
        ELSE IF 2 * r > den THEN q + 1
        ELSE IF q % 2 = 0 THEN q ELSE q + 1

Quotient(exc, kind, tenths) == [exc |-> exc, kind |-> kind, tenths |-> tenths]

\* x / n of a Python int by a Python int, shown with one decimal as a percentage.
RatePythonInt(x, n) ==
    IF n = 0 THEN Quotient("ZeroDivisionError", "nan", 0)
    ELSE IF x = <<>> THEN Quotient("", "nan", 0)
    ELSE Quotient("", "num", RoundHalfEven(x[1] * 1000, n))

\* f"{x / n * 100:.1f}" for the numpy.float64 x (NaN when the SUM was NULL) and
\* the numpy.int64 n that to_df() delivers: a division by zero gives nan or inf
\* with a warning, never an exception.  tenths is the shown number times ten.
Rate(x, n) ==
    IF x = <<>> THEN Quotient("", "nan", 0)
    ELSE IF n = 0 THEN Quotient("", IF x[1] = 0 THEN "nan" ELSE "inf", 0)
    ELSE Quotient("", "num", RoundHalfEven(x[1] * 1000, n))

\* The digest: the table of the aggregate row followed by the three rates.
Digest(body, rates) == Out("digest", body, FALSE, 0, 0, "") @@ [rates |-> rates]

\* The digest query reads the view data of conn_today; any exception becomes the
\* "Error in data quality check" message.
validate_data_quality(self) ==
    IF self.today_data = <<>> THEN Message("quality_not_loaded", "")
    ELSE LET r == Execute(self.conn_today[1], DigestQuery)
         IN  IF ~r.ok THEN Message("quality_error", r.exc)
             ELSE LET checks == r.rel[1].rows[1]
                      success == Rate(checks.successful_files, checks.total_files)
                      duplicate == Rate(checks.duplicates, checks.total_files)
                      empty == Rate(checks.empty_files, checks.total_files)
                  IN  IF success.exc # "" THEN Message("quality_error", success.exc)
                      ELSE IF duplicate.exc # "" THEN Message("quality_error", duplicate.exc)
                      ELSE IF empty.exc # "" THEN Message("quality_error", empty.exc)
                      ELSE Digest(to_markdown(r.rel[1], FALSE),
                                  [success_rate |-> success, duplicate_rate |-> duplicate,
                                   empty_file_rate |-> empty])

close_keeps_cv(self) ==
    [self EXCEPT
       !.conn_today = IF "conn_today" \in self.attrs THEN <<[@[1] EXCEPT !.closed = TRUE]>> ELSE @,
       !.conn_all = IF "conn_all" \in self.attrs THEN <<[@[1] EXCEPT !.closed = TRUE]>> ELSE @,
       !.attrs = @ \cup {"data", "analyzer"},
       !.data = <<>>,
       !.analyzer = <<>>]

close(self) ==
    [self EXCEPT
       !.conn_today = IF "conn_today" \in self.attrs THEN <<[@[1] EXCEPT !.closed = TRUE]>> ELSE @,
       !.conn_all = IF "conn_all" \in self.attrs THEN <<[@[1] EXCEPT !.closed = TRUE]>> ELSE @,
       !.attrs = @ \cup {"data", "markdown_explanation", "analyzer"},
       !.data = <<>>,
       !.markdown_explanation = <<>>,
       !.analyzer = <<>>]

\* str(path): the text of a Path object, a str unchanged.
Str(path) == path[2]
\* Path(day_folder): the folder a Path or str argument names.
Folder(path) == path[2]
AsPath(text) == <<"Path", text>>
AsStr(text) == <<"str", text>>

CacheKey(source_id, day_folder, datasource_folder, prefix) ==
    <<source_id, Str(day_folder), Str(datasource_folder), prefix>>

\* object.__new__(cls): no attribute is set yet.
NewObject ==
    [attrs |-> {}, source_id |-> "", day_folder |-> <<>>, datasource_folder |-> <<>>,
     tool_name_prefix |-> "", data |-> <<>>, markdown_explanation |-> <<>>,
     analyzer |-> <<>>, today_data |-> <<>>, conn_today |-> <<>>, conn_all |-> <<>>]

\* __new__: heap is the sequence of all instances ever created, an instance's
\* identity its position in it.
NewKeyedOnSource(instances, heap, source_id, day_folder, datasource_folder, prefix) ==
    LET hit == {k \in DOMAIN instances : k[1] = source_id}
    IN  IF hit # {}
        THEN [instances |-> instances, heap |-> heap,
              id |-> instances[CHOOSE k \in hit : TRUE], reused |-> TRUE]
        ELSE [instances |-> instances
                            @@ (CacheKey(source_id, day_folder, datasource_folder, prefix)
                                :> Len(heap) + 1),
              heap |-> Append(heap, NewObject), id |-> Len(heap) + 1, reused |-> FALSE]

NewSharedInitialized(instances, heap, source_id, day_folder, datasource_folder, prefix) ==
    LET key == CacheKey(source_id, day_folder, datasource_folder, prefix)
        seen == \E i \in 1..Len(heap) : "_initialized" \in heap[i].attrs
        fresh == [NewObject EXCEPT !.attrs = IF seen THEN {"_initialized"} ELSE {}]
    IN  IF key \in DOMAIN instances
        THEN [instances |-> instances, heap |-> heap, id |-> instances[key], reused |-> TRUE]
        ELSE [instances |-> instances @@ (key :> Len(heap) + 1),
              heap |-> Append(heap, fresh), id |-> Len(heap) + 1, reused |-> FALSE]

New(instances, heap, source_id, day_folder, datasource_folder, prefix) ==
    LET key == CacheKey(source_id, day_folder, datasource_folder, prefix)
    IN  IF key \in DOMAIN instances
        THEN [instances |-> instances, heap |-> heap, id |-> instances[key], reused |-> TRUE]
        ELSE [instances |-> instances @@ (key :> Len(heap) + 1),
              heap |-> Append(heap, NewObject), id |-> Len(heap) + 1, reused |-> FALSE]

\* The calls into the database engine at the end of __init__, each of which can raise.
NoFault == "none"
EngineFaults == {"register_today", "connect_all", "register_all"}

\* duckdb.connect(":memory:") alone: an open connection without a view.
Opened == [closed |-> FALSE, data |-> <<>>]

\* __init__: exc is the exception that left it, "" when it returned; ran tells that
\* the loading code ran to its last line; fault names the engine call that raises
\* in this run, if one does.
Initialize(self, fsys, source_id, day_folder, datasource_folder, prefix, fault) ==
    IF "_initialized" \in self.attrs THEN [self |-> self, exc |-> "", ran |-> FALSE]
    ELSE LET s1 == [self EXCEPT
                     !.attrs = @ \cup {"source_id", "day_folder", "datasource_folder", "data",
                                       "markdown_explanation", "analyzer", "tool_name_prefix"},
                     !.source_id = source_id,
                     !.day_folder = day_folder,
                     !.datasource_folder = datasource_folder,
                     !.data = <<>>,
                     !.markdown_explanation = <<>>,
                     !.analyzer = <<>>,
                     !.tool_name_prefix = prefix]
             a == from_day_folder(fsys, source_id, Folder(day_folder), Folder(datasource_folder))
         IN  IF ~a.ok THEN [self |-> s1, exc |-> a.exc, ran |-> FALSE]
             ELSE LET s2 == [s1 EXCEPT !.analyzer = <<Val(a)>>,
                                       !.data = <<Val(a).data>>,
                                       !.markdown_explanation = <<Val(a).markdown_explanation>>]
                      data == Val(a).data
                  IN  IF "from_period" \notin data.cols
                      THEN [self |-> s2, exc |-> "KeyError", ran |-> FALSE]
                      ELSE LET today_data == FilterEq(data, "from_period", "today")
                               s3 == [s2 EXCEPT !.attrs = @ \cup {"today_data", "conn_today"},
                                                !.today_data = <<today_data>>,
                                                !.conn_today = <<Opened>>]
                               s4 == [s3 EXCEPT !.conn_today = <<Connect(today_data)>>]
                               s5 == [s4 EXCEPT !.attrs = @ \cup {"conn_all"},
                                                !.conn_all = <<Opened>>]
                               s6 == [s5 EXCEPT !.attrs = @ \cup {"_initialized"},
                                                !.conn_all = <<Connect(data)>>]
                           IN  IF fault = "register_today"
                               THEN [self |-> s3, exc |-> "duckdb.Error", ran |-> FALSE]
                               ELSE IF fault = "connect_all"
                               THEN [self |-> s4, exc |-> "duckdb.Error", ran |-> FALSE]
                               ELSE IF fault = "register_all"
                               THEN [self |-> s5, exc |-> "duckdb.Error", ran |-> FALSE]
                               ELSE [self |-> s6, exc |-> "", ran |-> TRUE]

\* ------------------------------------------------------ models/file_entry.py
valid_statuses == {"processed", "empty", "failed", "pending"}

\* @validator("status")
validate_status(v) == IF v \notin valid_statuses THEN Raise("ValueError") ELSE Ok(v)

\* @validator("file_size"): v is <<>> for None; values holds the fields validated
\* before file_size that passed, each <<>> when it failed.
validate_file_size(v, values) ==
    LET status == values.status
        rows == IF values.rows = <<>> THEN 0 ELSE values.rows[1]
    IN  IF status = <<"empty">> /\ v # <<>> THEN Raise("ValueError")
        ELSE IF status = <<"processed">> /\ rows > 0 /\ v = <<>> THEN Raise("ValueError")
        ELSE IF v # <<>> /\ v[1] < 0 THEN Raise("ValueError")
        ELSE Ok(v)

\* FileEntry(**obj): the fields are validated in the order of their declaration;
\* rows must be >= 0; the file_size validator runs only when the key is given.
\* errors names the fields that were refused, the entry exists when there are none.
FileEntry(obj) ==
    LET rows_ok == obj.rows >= 0
        status == validate_status(obj.status)
        values == [rows |-> IF rows_ok THEN <<obj.rows>> ELSE <<>>,
                   status |-> IF status.ok THEN <<obj.status>> ELSE <<>>]
        file_size == IF obj.has_file_size THEN validate_file_size(obj.file_size, values)
                     ELSE Ok(<<>>)
    IN  [errors |-> (IF rows_ok THEN {} ELSE {"rows"})
                    \cup (IF status.ok THEN {} ELSE {"status"})
                    \cup (IF file_size.ok THEN {} ELSE {"file_size"}),
         rows |-> obj.rows, status |-> obj.status,
         file_size |-> IF file_size.ok THEN Val(file_size) ELSE <<>>]

\* get_cache_info(): the number of cached instances and their keys (the order of
\* the list of keys is not kept).
get_cache_info(instances) ==
    [kind |-> "cache_info", cached_instances |-> Cardinality(DOMAIN instances),
     cached_keys |-> DOMAIN instances]

\* ------------------------------------------------------ agents/factory.py
None == <<>>

\* The six detectors in the order of create_all_detector_agents: the name of the
\* agent and the session-state key its creator uses when it gets no source_id.
Detectors ==
    << [name |-> "MissingFileDetector", key |-> "missing_file_results"],
       [name |-> "DuplicatedandFailedFileDetector", key |-> "duplicated_failed_results"],
       [name |-> "UnexpectedEmptyFileDetector", key |-> "empty_file_results"],
       [name |-> "UnexpectedVolumeVariationDetector", key |-> "volume_variation_results"],
       [name |-> "FileUploadAfterScheduleDetector", key |-> "late_upload_results"],
       [name |-> "UploadOfPreviousFileDetector", key |-> "previous_period_results"] >>

\* f"{key}_{source_id}" if source_id else key; the text is kept as its parts.
OutputKey(key, source_id) == IF source_id = None THEN <<key>> ELSE <<key, source_id[1]>>

\* LlmAgent: placeholders are the {key} references of its instruction, which the
\* runtime fills from the session state when the agent starts.
LlmAgent(name, output_key, placeholders) ==
    [name |-> name, output_key |-> output_key, placeholders |-> placeholders]

\* create_missing_file_detector_agent(tools, source_id=None) and its five siblings.
create_detector_agent(detector, source_id) ==
    LlmAgent(detector.name, <<OutputKey(detector.key, source_id)>>, {})

\* create_all_detector_agents: every creator is called with the tools alone.
create_all_detector_agents(source_id) ==
    [i \in DOMAIN Detectors |-> create_detector_agent(Detectors[i], None)]

\* create_source_synthesizer_agent(tools=None, output_key=None, source_id=None)
create_source_synthesizer_agent(output_key, source_id) ==
    LlmAgent("SourceSynthesizer", output_key,
             {OutputKey(Detectors[i].key, source_id) : i \in DOMAIN Detectors})

\* create_source_analysis_pipeline: SequentialAgent of the ParallelAgent of the
\* detectors and the synthesizer, which is created from the tools alone.
create_source_analysis_pipeline(source_id) ==
    [name |-> <<"SourceAnalysisPipeline", source_id>>,
     detectors |-> create_all_detector_agents(source_id),
     synthesizer |-> create_source_synthesizer_agent(None, None)]

\* create_multi_source_detection_pipeline: SequentialAgent of the ParallelAgent of
\* the source pipelines and the final synthesis agent.
create_multi_source_detection_pipeline(sources_config) ==
    [name |-> "MultiSourceDataQualityPipeline",
     pipelines |-> [i \in DOMAIN sources_config |->
                       create_source_analysis_pipeline(sources_config[i])],
     final |-> LlmAgent("MultiSourceFinalSynthesisAgent", None, {})]

\* The author _run_analysis looks for in the events of the run.
ReportAuthor == "MultiSourceSynthesisAgent"

\* A session of the runner on the pipeline: the progress of every agent, the
\* session state, what each synthesizer's instruction was filled with, the events
\* that carry a final response, and what _run_analysis made of them.
Configured(sources_config) == {sources_config[i] : i \in DOMAIN sources_config}
NewSession(sources_config) ==
    [sources |-> sources_config,
     pipeline |-> create_multi_source_detection_pipeline(sources_config),
     det |-> [s \in Configured(sources_config) |-> [i \in DOMAIN Detectors |-> "idle"]],
     synth |-> [s \in Configured(sources_config) |-> "idle"],
     final |-> "idle",
     state |-> <<>>,
     injected |-> [s \in Configured(sources_config) |-> <<>>],
     events |-> {},
     outcome |-> <<>>]

PipelineOf(r, s) == r.pipeline.pipelines[CHOOSE i \in DOMAIN r.sources : r.sources[i] = s]

\* session.state[key] = value
Put(state, key, value) ==
    [k \in DOMAIN state \cup {key} |-> IF k = key THEN value ELSE state[k]]

\* The event that carries an agent's final response; finished tells whether its
\* finish_reason is set.
Event(author, finished) == [author |-> author, finished |-> finished]

\* An agent's final response: the event, and the response saved under output_key.
\* The response of an agent of the pipeline of source s is a result about s.
Respond(r, agent, s, finished) ==
    [r EXCEPT !.events = @ \cup {Event(agent.name, finished)},
              !.state = IF agent.output_key = None THEN @
                        ELSE Put(@, agent.output_key[1], s)]

\* Variants in which a sequential agent goes on as soon as one sub-agent of the
\* parallel agent before it has finished.
DetectionTeamStartsSynthesizerEarly(r, s) ==
    \E i \in DOMAIN Detectors : r.det[s][i] = "done"
ParallelProcessorDoneForOne(r) ==
    \E s \in Configured(r.sources) : r.synth[s] = "done"

\* SourceDetectionTeam, a ParallelAgent, has finished when each detector has.
DetectionTeamDone(r, s) ==
    \A i \in DOMAIN Detectors : r.det[s][i] = "done"

\* MultiSourceParallelProcessor has finished when each source pipeline has, that
\* is when the last agent of each, the synthesizer, has.
ParallelProcessorDone(r) ==
    \A s \in Configured(r.sources) : r.synth[s] = "done"

\* cli._run_analysis after the run: the loop over the events and what follows it.
\* typer.Exit raised inside the try block is an Exception, so the last handler
\* reports it once more and exits with code 1 again.
ProcessEvents(events) ==
    LET report_found == \E e \in events : e.author = ReportAuthor /\ e.finished
    IN  IF report_found
        THEN [report_found |-> TRUE, exit_code |-> 0,
              messages |-> <<"Analysis completed successfully!">>]
        ELSE [report_found |-> FALSE, exit_code |-> 1,
              messages |-> <<"No report generated", "Analysis failed">>]

\* ---- agents/factory.py: create_auto_discovery_multi_source_config
\* A file name is kept as the sequence of its parts, "195385_native.md" as
\* <<"195385", "_native", ".md">>. TokenRank orders the parts as str compares them.
NativeMark == "_native"
TokenRank ==
    (".json" :> 1) @@ (".md" :> 2) @@ ("195385" :> 3) @@ ("220504" :> 4) @@ ("30" :> 5)
    @@ (NativeMark :> 6) @@ ("notes" :> 7)

\* a < b on file names (paths of one folder)
Before(a, b) ==
    LET n == IF Len(a) < Len(b) THEN Len(a) ELSE Len(b)
        differ == {i \in 1..n : a[i] # b[i]}
    IN  IF differ = {} THEN Len(a) < Len(b)
        ELSE LET i == Least(differ)[1] IN TokenRank[a[i]] < TokenRank[b[i]]

\* A listing in descending order.
RECURSIVE sorted_descending(_)
sorted_descending(files) ==
    IF files = {} THEN <<>>
    ELSE LET last == CHOOSE f \in files : \A g \in files \ {f} : Before(g, f)
         IN  <<last>> \o sorted_descending(files \ {last})

\* sorted(cv_files)
RECURSIVE sorted(_)
sorted(files) ==
    IF files = {} THEN <<>>
    ELSE LET first == CHOOSE f \in files : \A g \in files \ {f} : Before(f, g)
         IN  <<first>> \o sorted(files \ {first})

\* datasource_folder.glob("*_native.md")
glob_native_md(files) ==
    {f \in files : Len(f) >= 2 /\ f[Len(f)] = ".md" /\ f[Len(f) - 1] = NativeMark}

\* Path.stem: the name without its last suffix.
stem(file) == SubSeq(file, 1, Len(file) - 1)

\* text.replace("_native", "")
RECURSIVE replace_native(_)
replace_native(text) ==
    IF text = <<>> THEN <<>>
    ELSE IF Head(text) = NativeMark THEN replace_native(Tail(text))
         ELSE <<Head(text)>> \o replace_native(Tail(text))

\* The first line of each CV of the folder: whether it starts with "#", and what is
\* left of it after lstrip("#").strip().strip("_").
FirstLine(cv_file) ==
    IF cv_file[1] = "195385" THEN [header |-> TRUE, name |-> "Settlement_Layout_2"]
    ELSE IF cv_file[1] = "220504" THEN [header |-> TRUE, name |-> ""]
    ELSE [header |-> FALSE, name |-> "Overview"]

extract_source_name_from_cv(cv_file) ==
    LET first_line == FirstLine(cv_file)
    IN  IF first_line.header /\ first_line.name # "" THEN <<first_line.name>>
        ELSE <<"Source_">> \o replace_native(stem(cv_file))

create_auto_discovery_multi_source_config(folders, datasource_folder, json_files_folder, extract_names_from_cv) ==
    IF ~folders[datasource_folder].exists THEN Raise("FileNotFoundError")
    ELSE IF ~folders[json_files_folder].exists THEN Raise("FileNotFoundError")
    ELSE LET cv_files == glob_native_md(folders[datasource_folder].files)
             listing == sorted(cv_files)
         IN  IF cv_files = {} THEN Raise("ValueError")
             ELSE Ok([i \in 1..Len(listing) |->
                        LET source_id == replace_native(stem(listing[i]))
                        IN  [source_id |-> source_id,
                             name |-> IF extract_names_from_cv
                                      THEN extract_source_name_from_cv(listing[i])
                                      ELSE <<"Source_">> \o source_id,
                             day_folder |-> json_files_folder,
                             datasource_folder |-> datasource_folder]])

\* cli._run_analysis: if max_sources and len(sources) > max_sources: sources[:max_sources]
LimitSources(sources, max_sources) ==
    IF max_sources # None /\ max_sources[1] # 0 /\ Len(sources) > max_sources[1]
    THEN SubSeq(sources, 1, max_sources[1])
    ELSE sources

\* ---- the detector tasks of one source on the event loop of runner.run
\* tools.py declares every tool as a plain def: the runtime calls it on the thread
\* of the event loop, from the task of the agent whose model asked for it, and no
\* other task runs until the call has returned. A detector waits for its model
\* (off the loop), or is inside a tool call of the toolset all six of them hold
\* (create_all_detector_agents gets the tools once), or has finished.
NewTasks == [phase |-> [i \in DOMAIN Detectors |-> "waiting"], running |-> None]

\* A variant in which tool calls are handed to worker threads.
LoopFreeOnThreads(t) == TRUE

\* The event loop runs one task at a time.
LoopFree(t) == t.running = None

\* ---------------------------------------------------------------- state
VARIABLES
    fs,          \* the files on disk: the listings of each day folder, the CV of each source
    _instances,  \* DataSourceToolset._instances: cache key -> instance
    objs,        \* every instance ever created, by identity
    loads,       \* per instance, how often __init__ ran its loading code to the end
    issued,      \* <<key, instance>> of every construction that returned
    live,        \* the part of issued handed out since the last clear_cache()
    ret,         \* the last call and what it returned
    entry,       \* a JSON object given to FileEntry, and what FileEntry made of it
    session,     \* a run of the multi-source pipeline and its session state
    tasks,       \* the detector tasks of one source on the runner's event loop
    cli          \* the folders given to the command line, and the sources it analyses

vars == <<fs, _instances, objs, loads, issued, live, ret, entry, session, tasks, cli>>

\* The instances some caller holds a reference to.
Handles == {t[2] : t \in issued}

Call(op, obj, key, q, out) == [op |-> op, obj |-> obj, key |-> key, q |-> q, out |-> out]

\* DataSourceToolset(source_id, day_folder, datasource_folder, prefix), in a run
\* where the engine call named by fault raises.
Build(source_id, day_folder, datasource_folder, prefix, fault) ==
    LET n == New(_instances, objs, source_id, day_folder, datasource_folder, prefix)
        i == Initialize(n.heap[n.id], fs, source_id, day_folder, datasource_folder, prefix,
                        fault)
        key == CacheKey(source_id, day_folder, datasource_folder, prefix)
        count == IF n.id > Len(loads) THEN Append(loads, 0) ELSE loads
    IN  /\ Len(n.heap) <= MaxObjs
        /\ _instances' = n.instances
        /\ objs' = [n.heap EXCEPT ![n.id] = i.self]
        /\ loads' = [count EXCEPT ![n.id] = IF i.ran THEN @ + 1 ELSE @]
        /\ issued' = IF i.exc = "" THEN issued \cup {<<key, n.id>>} ELSE issued
        /\ live' = IF i.exc = "" THEN live \cup {<<key, n.id>>} ELSE live
        /\ ret' = Call("construct", IF i.exc = "" THEN n.id ELSE 0, key, "",
                       IF i.exc # "" THEN Message("raised", i.exc)
                       ELSE Message("instance", IF n.reused THEN "Reusing existing"
                                                ELSE "Creating new"))
        /\ UNCHANGED <<entry, session, tasks, cli, fs>>

\* DataSourceToolset(...) with a database engine that works.
Construct(source_id, day_folder, datasource_folder, prefix) ==
    Build(source_id, day_folder, datasource_folder, prefix, NoFault)

\* commons.get_tools: construction with the default prefix.
GetTools(source_id, day_folder, datasource_folder) ==
    Construct(source_id, day_folder, datasource_folder, "data_")

QueryToday(id, sql_query) ==
    LET r == query_today_data(objs[id], sql_query)
    IN  /\ objs' = [objs EXCEPT ![id] = r.self]
        /\ ret' = Call("query_today_data", id, <<>>, sql_query, r.out)
        /\ UNCHANGED <<entry, session, tasks, cli, fs, _instances, loads, issued, live>>

QueryAll(id, sql_query) ==
    LET r == query_today_and_last_weekday_data(objs[id], sql_query)
    IN  /\ objs' = [objs EXCEPT ![id] = r.self]
        /\ ret' = Call("query_today_and_last_weekday_data", id, <<>>, sql_query, r.out)
        /\ UNCHANGED <<entry, session, tasks, cli, fs, _instances, loads, issued, live>>

ReadCv(id) ==
    /\ ret' = Call("read_data_source_cv", id, <<>>, "", read_data_source_cv(objs[id]))
    /\ UNCHANGED <<entry, session, tasks, cli, fs, _instances, objs, loads, issued, live>>

ValidateDataQuality(id) ==
    /\ ret' = Call("validate_data_quality", id, <<>>, "", validate_data_quality(objs[id]))
    /\ UNCHANGED <<entry, session, tasks, cli, fs, _instances, objs, loads, issued, live>>

Close(id) ==
    /\ objs' = [objs EXCEPT ![id] = close(objs[id])]
    /\ ret' = Call("close", id, <<>>, "", Message("none", ""))
    /\ UNCHANGED <<entry, session, tasks, cli, fs, _instances, loads, issued, live>>

\* A clear_cache() that also closes every instance it drops.
ClearCacheClosing ==
    /\ _instances' = <<>>
    /\ live' = {}
    /\ objs' = [id \in DOMAIN objs |->
                   IF \E key \in DOMAIN _instances : _instances[key] = id
                   THEN close(objs[id]) ELSE objs[id]]
    /\ ret' = Call("clear_cache", 0, <<>>, "", Message("none", ""))
    /\ UNCHANGED <<entry, session, tasks, cli, fs, loads, issued>>

\* DataSourceToolset.clear_cache()
ClearCache ==
    /\ _instances' = <<>>
    /\ live' = {}
    /\ ret' = Call("clear_cache", 0, <<>>, "", Message("none", ""))
    /\ UNCHANGED <<entry, session, tasks, cli, fs, objs, loads, issued>>

GetCacheInfo ==
    /\ ret' = Call("get_cache_info", 0, <<>>, "", get_cache_info(_instances))
    /\ UNCHANGED <<entry, session, tasks, cli, fs, _instances, objs, loads, issued, live>>

\* FileEntry(**obj) for the object held in entry.
ValidateEntry ==
    /\ entry.made = <<>>
    /\ entry' = [entry EXCEPT !.made = <<FileEntry(entry.obj)>>]
    /\ UNCHANGED <<session, tasks, cli, fs, _instances, objs, loads, issued, live, ret>>

\* ---- the runner on the multi-source pipeline (cli.py: runner.run)
\* runner.run: the root agent starts its first sub-agent, the parallel processor,
\* which starts every source pipeline, which starts its detection team, which
\* starts its six detectors; all of them are tasks of the runner's event loop.
StartRun ==
    /\ session.sources # <<>>
    /\ \A s \in Configured(session.sources), i \in DOMAIN Detectors :
          session.det[s][i] = "idle"
    /\ session' = [session EXCEPT
                      !.det = [s \in Configured(session.sources) |->
                                  [i \in DOMAIN Detectors |-> "running"]]]
    /\ UNCHANGED <<entry, tasks, cli, fs, _instances, objs, loads, issued, live, ret>>

\* The detector gives its final response, which is saved under its output_key.
FinishDetector(s, i) ==
    /\ session.det[s][i] = "running"
    /\ session' = [Respond(session, PipelineOf(session, s).detectors[i], s, TRUE)
                      EXCEPT !.det[s][i] = "done"]
    /\ UNCHANGED <<entry, tasks, cli, fs, _instances, objs, loads, issued, live, ret>>

\* The synthesizer of source s starts, its instruction filled from the session state.
StartSynthesizer(s) ==
    LET agent == PipelineOf(session, s).synthesizer
    IN  /\ session.synth[s] = "idle"
        /\ DetectionTeamDone(session, s)
        /\ session' = [session EXCEPT
                          !.synth[s] = "running",
                          !.injected[s] = [k \in agent.placeholders \cap DOMAIN session.state
                                              |-> session.state[k]]]
        /\ UNCHANGED <<entry, tasks, cli, fs, _instances, objs, loads, issued, live, ret>>

FinishSynthesizer(s) ==
    /\ session.synth[s] = "running"
    /\ session' = [Respond(session, PipelineOf(session, s).synthesizer, s, TRUE)
                      EXCEPT !.synth[s] = "done"]
    /\ UNCHANGED <<entry, tasks, cli, fs, _instances, objs, loads, issued, live, ret>>

StartFinalSynthesis ==
    /\ session.final = "idle"
    /\ ParallelProcessorDone(session)
    /\ session' = [session EXCEPT !.final = "running"]
    /\ UNCHANGED <<entry, tasks, cli, fs, _instances, objs, loads, issued, live, ret>>

\* The final response of the final synthesis agent, as the model adapter built it:
\* with its finish_reason set or left None.
FinishFinalSynthesis(finished) ==
    /\ session.final = "running"
    /\ session' = [Respond(session, session.pipeline.final, "", finished)
                      EXCEPT !.final = "done"]
    /\ UNCHANGED <<entry, tasks, cli, fs, _instances, objs, loads, issued, live, ret>>

\* _run_analysis once the runner has yielded its last event.
ReadEvents ==
    /\ session.final = "done"
    /\ session.outcome = <<>>
    /\ session' = [session EXCEPT !.outcome = <<ProcessEvents(session.events)>>]
    /\ UNCHANGED <<entry, tasks, cli, fs, _instances, objs, loads, issued, live, ret>>

\* ---- the event loop (runner.run) and the tool calls of one detection team
\* The model of detector i asked for query_today_data or
\* query_today_and_last_weekday_data: its task gets the loop and enters the call.
BeginQuery(i) ==
    /\ tasks.phase[i] = "waiting"
    /\ LoopFree(tasks)
    /\ tasks' = [tasks EXCEPT !.phase[i] = "in_query", !.running = <<i>>]
    /\ UNCHANGED <<entry, session, cli, fs, _instances, objs, loads, issued, live, ret>>

\* The call returns, the task awaits its model again and yields the loop.
EndQuery(i) ==
    /\ tasks.phase[i] = "in_query"
    /\ tasks' = [tasks EXCEPT !.phase[i] = "waiting",
                              !.running = IF @ = <<i>> THEN None ELSE @]
    /\ UNCHANGED <<entry, session, cli, fs, _instances, objs, loads, issued, live, ret>>

\* The model of detector i gave its final response.
FinishTask(i) ==
    /\ tasks.phase[i] = "waiting"
    /\ LoopFree(tasks)
    /\ tasks' = [tasks EXCEPT !.phase[i] = "done"]
    /\ UNCHANGED <<entry, session, cli, fs, _instances, objs, loads, issued, live, ret>>

\* ---- cli._run_analysis, step 1: discovery of the sources and --max-sources
DiscoverSources ==
    LET found == create_auto_discovery_multi_source_config(
                     cli.folders, cli.cv_folder, cli.json_folder, cli.extract_names)
    IN  /\ cli.found = None
        /\ cli' = [cli EXCEPT
                      !.found = <<found>>,
                      !.sources = IF found.ok THEN <<LimitSources(Val(found), cli.max_sources)>>
                                  ELSE None,
                      !.exit_code = IF found.ok THEN None ELSE <<1>>]
        /\ UNCHANGED <<entry, session, tasks, fs, _instances, objs, loads, issued, live, ret>>

\* ------------------------------------------------------------ file systems
NoEntry == [obj |-> <<>>, made |-> <<>>]
NoSession == NewSession(<<>>)
NoTasks == <<>>
NoCli == <<>>
File(data) == [exists |-> TRUE, data |-> data]
AllCvs == [f \in DsFolders |-> [s \in Sources |-> "cv-text"]]

InitRest ==
    /\ _instances = <<>>
    /\ objs = <<>>
    /\ loads = <<>>
    /\ issued = {}
    /\ live = {}
    /\ ret = Call("start", 0, <<>>, "", Message("none", ""))
    /\ entry = NoEntry
    /\ session = NoSession
    /\ tasks = NoTasks
    /\ cli = NoCli

\* -------- SpecLoad: any two listings of at most MaxLen records over both sources,
\* the CV of s1 present or missing; the store of s1 is built from them and queried.
InitLoad ==
    /\ \E today \in JsonDocs(MaxLen), last_weekday \in JsonDocs(MaxLen),
          cv \in {"cv-text", NoText} :
          fs = [files |-> [d \in DayFolders |->
                             [today |-> File(today), last_weekday |-> File(last_weekday)]],
                docs |-> [f \in DsFolders |-> [AllCvs[f] EXCEPT !["s1"] = cv]]]
    /\ InitRest

LoadQueries == {CountQuery, SelectAllQuery}

NextLoad ==
    \/ GetTools("s1", AsPath("d1"), AsPath("f1"))
    \/ \E id \in Handles, q \in LoadQueries : QueryToday(id, q)
    \/ \E id \in Handles, q \in LoadQueries : QueryAll(id, q)

SpecLoad == InitLoad /\ [][NextLoad]_vars

\* -------- SpecQuery: two fixed listings, every kind of query text, close
Rec(filename, from_period) ==
    [filename |-> filename, from_period |-> from_period, rows |-> 5, status |-> "processed",
     is_duplicated |-> FALSE, file_size |-> <<10>>, uploaded_at |-> 1]

\* s1 has records in both listings; s2 has a record tagged today only in the
\* reference listing, so its today view is empty.
QueryFiles ==
    [today |-> File([s1 |-> <<Rec("A", "today"), Rec("B", "today")>>, s2 |-> <<>>]),
     last_weekday |-> File([s1 |-> <<Rec("A", "last_weekday")>>,
                            s2 |-> <<Rec("A", "last_weekday")>>])]

\* Listings as the upstream writes them: no record has a from_period field.
BareFiles ==
    [today |-> File([s1 |-> <<Rec("A", Absent)>>, s2 |-> <<Rec("B", Absent)>>]),
     last_weekday |-> File([s1 |-> <<Rec("A", Absent)>>, s2 |-> <<>>])]

InitQuery ==
    /\ fs = [files |-> [d \in DayFolders |-> QueryFiles], docs |-> AllCvs]
    /\ InitRest

NextQuery ==
    \/ \E s \in Sources : GetTools(s, AsPath("d1"), AsPath("f1"))
    \/ \E id \in Handles, q \in AllQueries : QueryToday(id, q)
    \/ \E id \in Handles, q \in AllQueries : QueryAll(id, q)
    \/ \E id \in Handles : Close(id)

SpecQuery == InitQuery /\ [][NextQuery]_vars

\* -------- Spec: the life of the stores of two sources
\* The day folder holds tagged or bare listings; the CV of s2 may be missing.
Init ==
    /\ \E files \in {QueryFiles, BareFiles}, cv \in Texts \cup {NoText} :
          fs = [files |-> [d \in DayFolders |-> files],
                docs |-> [f \in DsFolders |-> [AllCvs[f] EXCEPT !["s2"] = cv]]]
    /\ InitRest

LifeQueries == {CountQuery, SyntaxErrorQuery}

Next ==
    \/ \E s \in Sources : GetTools(s, AsPath("d1"), AsPath("f1"))
    \/ \E id \in Handles, q \in LifeQueries : QueryToday(id, q)
    \/ \E id \in Handles, q \in LifeQueries : QueryAll(id, q)
    \/ \E id \in Handles : ReadCv(id)
    \/ \E id \in Handles : ValidateDataQuality(id)
    \/ \E id \in Handles : Close(id)
    \/ ClearCache

Spec == Init /\ [][Next]_vars

\* -------- SpecCache: the singleton cache under argument tuples that differ
InitCache ==
    /\ \E files \in [DayFolders -> {QueryFiles, BareFiles}], cv \in Texts \cup {NoText} :
          fs = [files |-> files, docs |-> [AllCvs EXCEPT !["f2"]["s1"] = cv]]
    /\ InitRest

\* One argument tuple, the same tuple with day_folder given as a str, and four tuples
\* that differ from it in one component each.
Arguments ==
    {<<"s1", AsPath("d1"), AsPath("f1"), "data_">>,
     <<"s1", AsStr("d1"), AsPath("f1"), "data_">>,
     <<"s2", AsPath("d1"), AsPath("f1"), "data_">>,
     <<"s1", AsPath("d2"), AsPath("f1"), "data_">>,
     <<"s1", AsPath("d1"), AsPath("f2"), "data_">>,
     <<"s1", AsPath("d1"), AsPath("f1"), "alt_">>}

NextCache ==
    \/ \E a \in Arguments : Construct(a[1], a[2], a[3], a[4])
    \/ \E id \in Handles : Close(id)
    \/ ClearCache
    \/ GetCacheInfo

SpecCache == InitCache /\ [][NextCache]_vars

\* -------- SpecFault: construction with an engine call that may raise, then close
InitFault ==
    /\ fs = [files |-> [d \in DayFolders |-> QueryFiles], docs |-> AllCvs]
    /\ InitRest

NextFault ==
    \/ \E s \in Sources, fault \in EngineFaults \cup {NoFault} :
          Build(s, AsPath("d1"), AsPath("f1"), "data_", fault)
    \/ \E id \in Handles : QueryToday(id, CountQuery)
    \/ \E id \in Handles : Close(id)
    \/ ClearCache

SpecFault == InitFault /\ [][NextFault]_vars

\* -------- SpecDigest: today listings of s1 with every mix of the fields the digest
\* reads; the store of s1 is built, asked for the digest and listed.
Statuses == {"processed", "empty", "failure", "SUCCESS"}
DigestRecords ==
    [filename : {"A"}, from_period : Periods, rows : {0, 5}, status : Statuses,
     is_duplicated : BOOLEAN, file_size : {<<>>, <<10>>}, uploaded_at : {1}]

InitDigest ==
    /\ \E today \in SeqsUpTo(DigestRecords, MaxLen) :
          fs = [files |-> [d \in DayFolders |->
                             [today |-> File([s1 |-> today, s2 |-> <<Rec("B", "today")>>]),
                              last_weekday |-> QueryFiles.last_weekday]],
                docs |-> AllCvs]
    /\ InitRest

NextDigest ==
    \/ GetTools("s1", AsPath("d1"), AsPath("f1"))
    \/ \E id \in Handles : ValidateDataQuality(id)
    \/ \E id \in Handles : QueryAll(id, SelectAllQuery)

SpecDigest == InitDigest /\ [][NextDigest]_vars

\* -------- SpecEntry: FileEntry on every object over these field values
StatusInputs ==
    {"processed", "empty", "failed", "pending", "failure", "stopped", "deleted", "PROCESSED"}
EntryInputs ==
    {o \in [rows : {-1, 0, 3}, status : StatusInputs, has_file_size : BOOLEAN,
            file_size : {<<>>, <<-1>>, <<10>>}] :
        ~o.has_file_size => o.file_size = <<>>}

InitEntry ==
    /\ fs = [files |-> [d \in DayFolders |-> QueryFiles], docs |-> AllCvs]
    /\ _instances = <<>>
    /\ objs = <<>>
    /\ loads = <<>>
    /\ issued = {}
    /\ live = {}
    /\ ret = Call("start", 0, <<>>, "", Message("none", ""))
    /\ \E o \in EntryInputs : entry = [obj |-> o, made |-> <<>>]
    /\ session = NoSession
    /\ tasks = NoTasks
    /\ cli = NoCli

NextEntry == ValidateEntry

SpecEntry == InitEntry /\ [][NextEntry]_vars

\* -------- SpecPipeline: one run of the multi-source pipeline on one or two sources
IdleStores ==
    /\ fs = [files |-> [d \in DayFolders |-> QueryFiles], docs |-> AllCvs]
    /\ _instances = <<>>
    /\ objs = <<>>
    /\ loads = <<>>
    /\ issued = {}
    /\ live = {}
    /\ ret = Call("start", 0, <<>>, "", Message("none", ""))
    /\ entry = NoEntry

SourcesConfigs == {<<"s1">>, <<"s1", "s2">>}

InitPipeline ==
    /\ IdleStores
    /\ \E sources_config \in SourcesConfigs : session = NewSession(sources_config)
    /\ tasks = NoTasks
    /\ cli = NoCli

NextPipeline ==
    \/ StartRun
    \/ \E s \in Configured(session.sources), i \in DOMAIN Detectors : FinishDetector(s, i)
    \/ \E s \in Configured(session.sources) : StartSynthesizer(s)
    \/ \E s \in Configured(session.sources) : FinishSynthesizer(s)
    \/ StartFinalSynthesis
    \/ \E finished \in BOOLEAN : FinishFinalSynthesis(finished)
    \/ ReadEvents

SpecPipeline == InitPipeline /\ [][NextPipeline]_vars

\* -------- SpecLoop: the tool calls of the six detectors of one source
InitLoop ==
    /\ IdleStores
    /\ session = NoSession
    /\ tasks = NewTasks
    /\ cli = NoCli

NextLoop ==
    \/ \E i \in DOMAIN Detectors : BeginQuery(i)
    \/ \E i \in DOMAIN Detectors : EndQuery(i)
    \/ \E i \in DOMAIN Detectors : FinishTask(i)

SpecLoop == InitLoop /\ [][NextLoop]_vars

\* -------- SpecDiscover: discovery over folders that exist or not and hold some files
FolderFiles ==
    {<<"195385", NativeMark, ".md">>, <<"220504", NativeMark, ".md">>,
     <<"30", NativeMark, NativeMark, ".md">>, <<NativeMark, ".md">>,
     <<"notes", ".md">>, <<"195385", ".json">>}
MaxSourcesInputs == {None, <<1>>, <<2>>, <<3>>}

InitDiscover ==
    /\ IdleStores
    /\ session = NoSession
    /\ tasks = NoTasks
    /\ \E cv_exists \in BOOLEAN, json_exists \in BOOLEAN, files \in SUBSET FolderFiles,
          extract_names \in BOOLEAN, max_sources \in MaxSourcesInputs :
          /\ ~cv_exists => files = {}
          /\ cli = [folders |-> [cvs |-> [exists |-> cv_exists, files |-> files],
                                 json |-> [exists |-> json_exists, files |-> {}]],
                    cv_folder |-> "cvs", json_folder |-> "json",
                    extract_names |-> extract_names, max_sources |-> max_sources,
                    found |-> None, sources |-> None, exit_code |-> None]

NextDiscover == DiscoverSources

SpecDiscover == InitDiscover /\ [][NextDiscover]_vars

\* ------------------------------------------------------------- properties
\* The records of the store's source in a listing of the folder it was built from.
ListingRecords(id, listing) ==
    fs.files[Folder(objs[id].day_folder)][listing].data[objs[id].source_id]

CountReturned(out) == out.body[1].row.count_star

\* C1: after a successful construction, query_today_data("SELECT COUNT(*) FROM data")
\* returns the number of records of the source in the today listing.
C1_TodayCountIsTodayListing ==
    (ret.op = "query_today_data" /\ ret.q = CountQuery) =>
        /\ ret.out.kind = "table"
        /\ CountReturned(ret.out) = Len(ListingRecords(ret.obj, "today"))

\* C2: after a successful construction, the combined relation holds exactly
\* len(today) + len(last_weekday) rows of the source; nothing is dropped or merged.
C2_CombinedCountIsSum ==
    (ret.op = "query_today_and_last_weekday_data" /\ ret.q = CountQuery) =>
        /\ ret.out.kind = "table"
        /\ CountReturned(ret.out) = Len(ListingRecords(ret.obj, "today"))
                                    + Len(ListingRecords(ret.obj, "last_weekday"))

\* A combined count was returned for a store whose two listings both hold a record
\* of the source under the same filename.
C2_Witness ==
    /\ ret.op = "query_today_and_last_weekday_data"
    /\ ret.q = CountQuery
    /\ ret.out.kind = "table"
    /\ \E i \in 1..Len(ListingRecords(ret.obj, "today")),
          j \in 1..Len(ListingRecords(ret.obj, "last_weekday")) :
          ListingRecords(ret.obj, "today")[i].filename
              = ListingRecords(ret.obj, "last_weekday")[j].filename

\* C3: every row of the combined relation carries in from_period the partition it
\* was loaded from: 'today' for the rows of the today listing (they come first),
\* 'last_weekday' for the rows of the reference listing.
C3_FromPeriodIsPartition ==
    (ret.op = "query_today_and_last_weekday_data" /\ ret.q = SelectAllQuery
     /\ ret.out.kind = "table") =>
        \A i \in 1..Len(ret.out.body) :
            ret.out.body[i].row["from_period"] =
                IF i <= Len(ListingRecords(ret.obj, "today")) THEN "today" ELSE "last_weekday"


QueryOps == {"query_today_data", "query_today_and_last_weekday_data"}
StoreOps == QueryOps \cup {"read_data_source_cv", "validate_data_quality"}
NotLoadedKinds == {"not_loaded", "cv_not_loaded", "quality_not_loaded"}
ErrorKinds == NotLoadedKinds \cup {"query_error", "quality_error"}

\* The two states of a constructed store, by the fields the code keeps.
LoadedState(o) ==
    /\ "_initialized" \in o.attrs
    /\ o.data # <<>> /\ o.markdown_explanation # <<>> /\ o.today_data # <<>>
    /\ ~o.conn_today[1].closed /\ ~o.conn_all[1].closed
ClosedState(o) ==
    /\ "_initialized" \in o.attrs
    /\ o.data = <<>> /\ o.markdown_explanation = <<>>
    /\ o.conn_today[1].closed /\ o.conn_all[1].closed

ConnUsed(call) ==
    IF call.op = "query_today_data" THEN objs[call.obj].conn_today[1]
    ELSE objs[call.obj].conn_all[1]

\* C4: a query whose result has n rows returns min(n, 100) rows; above 100 the total n
\* and the n - 100 omitted rows are stated, from 1 to 100 rows nothing is omitted or
\* announced.
C4_RowCap ==
    ret.op \in QueryOps =>
        LET r == Execute(ConnUsed(ret), ret.q)
        IN  (r.ok /\ r.rel # <<>>) =>
                LET n == Len(r.rel[1].rows)
                IN  /\ Len(ret.out.body) = IF n < 100 THEN n ELSE 100
                    /\ n > 100 => /\ ret.out.notice
                                  /\ ret.out.total = n
                                  /\ ret.out.more = n - 100
                    /\ (1 <= n /\ n <= 100) => (ret.out.kind = "table" /\ ~ret.out.notice)

\* A result of 250 rows came back as 100 rows and "150 more rows".
C4_Witness ==
    /\ ret.op \in QueryOps
    /\ ret.q = "SELECT * FROM range(250)"
    /\ ret.out.kind = "truncated"
    /\ Len(ret.out.body) = 100
    /\ ret.out.more = 150

\* C5: on a loaded store a malformed query is answered with the query-error message,
\* and every valid query has the same result after it as before it.
C5_MalformedQueryIsReported ==
    [][(/\ ret'.op \in QueryOps
        /\ ret'.q \in MalformedQueries
        /\ LoadedState(objs[ret'.obj]))
       => /\ ret'.out.kind = "query_error"
          /\ \A q \in SelectQueries :
                /\ query_today_data(objs'[ret'.obj], q).out
                     = query_today_data(objs[ret'.obj], q).out
                /\ query_today_and_last_weekday_data(objs'[ret'.obj], q).out
                     = query_today_and_last_weekday_data(objs[ret'.obj], q).out]_vars

\* A malformed query was answered on a loaded store that still answers a count.
C5_Witness ==
    /\ ret.op \in QueryOps
    /\ ret.q \in MalformedQueries
    /\ ret.out.kind = "query_error"
    /\ LoadedState(objs[ret.obj])
    /\ query_today_data(objs[ret.obj], CountQuery).out.kind = "table"

\* C6: between construction and close, whatever query texts were run, a SELECT over
\* data sees exactly the records loaded at construction, in both connections.
C6_DataNeverChanges ==
    \A id \in Handles :
        LoadedState(objs[id]) =>
            LET today == Execute(objs[id].conn_today[1], SelectAllQuery)
                all == Execute(objs[id].conn_all[1], SelectAllQuery)
            IN  /\ today.ok /\ today.rel[1].rows = objs[id].today_data[1].rows
                /\ all.ok /\ all.rel[1].rows = objs[id].data[1].rows

\* C7: every operation on a closed store returns the not-initialized outcome, which
\* is not the query-execution-error outcome.
C7_ClosedStoreIsNotInitialized ==
    (ret.op \in StoreOps /\ ClosedState(objs[ret.obj])) => ret.out.kind \in NotLoadedKinds

\* C8: a store is loaded or closed, only close() takes it from loaded to closed,
\* nothing takes it back, and every operation on a closed store returns an error.
C8_TwoLifecycleStates ==
    [][/\ \A id \in Handles' : LoadedState(objs'[id]) \/ ClosedState(objs'[id])
       /\ \A id \in Handles :
             /\ (LoadedState(objs[id]) /\ ClosedState(objs'[id]))
                    => (ret'.op = "close" /\ ret'.obj = id)
             /\ ClosedState(objs[id]) => ClosedState(objs'[id])
       /\ (ret'.op \in StoreOps /\ ClosedState(objs'[ret'.obj]))
             => (ret'.out.kind \in ErrorKinds /\ ret'.out.body = <<>>)]_vars

\* The documentation was asked of a closed store and refused.
C8_Witness ==
    /\ ret.op = "read_data_source_cv"
    /\ ClosedState(objs[ret.obj])
    /\ ret.out.kind = "cv_not_loaded"

\* C9: a construction that returns hands back a store in the loaded state, also after
\* close() was called on the instance obtained earlier.
C9_ConstructionReturnsLoadedStore ==
    (ret.op = "construct" /\ ret.out.kind = "instance") => LoadedState(objs[ret.obj])

\* C10 as stated: equal keys always give the same instance and one load, unequal
\* keys give distinct instances.
C10_OneInstancePerKey ==
    /\ \A a, b \in issued : (a[1] = b[1]) <=> (a[2] = b[2])
    /\ \A id \in 1..Len(loads) : loads[id] <= 1

\* C10 amended: constructions with equal keys and no clear_cache() between them
\* return the same instance, an instance is loaded at most once, and constructions
\* with unequal keys return distinct instances.
C10_OneInstancePerKeyBetweenClears ==
    /\ \A a, b \in live : (a[1] = b[1]) => (a[2] = b[2])
    /\ \A a, b \in issued : (a[1] # b[1]) => (a[2] # b[2])
    /\ \A id \in 1..Len(loads) : loads[id] <= 1

\* A construction was answered from the cache while an instance of another key exists.
C10_Witness ==
    /\ ret.op = "construct"
    /\ ret.out.kind = "instance"
    /\ ret.out.text = "Reusing existing"
    /\ loads[ret.obj] = 1
    /\ \E b \in live : b[1] # ret.key /\ b[2] # ret.obj

\* The CV file <source_id>_native.md of a cache key's source is not on disk.
DocAbsent(key) == fs.docs[key[3]][key[1]] = NoText

\* C11: when the CV file of the source is absent, construction fails with a
\* not-found error, whatever the listings hold, and returns no store.
C11_MissingDocIsNotFound ==
    (ret.op = "construct" /\ DocAbsent(ret.key)) =>
        /\ ret.out.kind = "raised"
        /\ ret.out.text = "FileNotFoundError"

\* Both listing files of a cache key's day folder are on disk.
ListingsExist(key) ==
    /\ fs.files[key[2]].today.exists
    /\ fs.files[key[2]].last_weekday.exists

\* C12: when both listing files and the CV exist, construction returns a loaded
\* store, however many records the listings hold (none for the source, or none at all).
C12_ExistingFilesLoad ==
    (ret.op = "construct" /\ ListingsExist(ret.key) /\ ~DocAbsent(ret.key)) =>
        /\ ret.out.kind = "instance"
        /\ LoadedState(objs[ret.obj])

\* Every connection the instance holds is closed.
ConnectionsReleased(o) ==
    /\ o.conn_today # <<>> => o.conn_today[1].closed
    /\ o.conn_all # <<>> => o.conn_all[1].closed

\* C13: after close() both connections are closed, and when construction fails every
\* connection opened so far is closed before the error reaches the caller.
C13_ConnectionsReleased ==
    /\ ret.op = "close" => ConnectionsReleased(objs[ret.obj])
    /\ (ret.op = "construct" /\ ret.out.kind = "raised")
          => ConnectionsReleased(objs[_instances[ret.key]])

\* The rows of the view data of conn_today, when the view is there.
TodayView(o) == Execute(o.conn_today[1], SelectAllQuery)

RateNames == {"success_rate", "duplicate_rate", "empty_file_rate"}

\* C14: on a loaded store whose today partition is empty, validate_data_quality
\* returns a digest with total_files = 0 whose rates are 0 or not a number; it
\* neither raises nor reports a division error.
C14_EmptyPartitionDigest ==
    (/\ ret.op = "validate_data_quality"
     /\ LoadedState(objs[ret.obj])
     /\ TodayView(objs[ret.obj]).ok
     /\ TodayView(objs[ret.obj]).rel[1].rows = <<>>)
    => /\ ret.out.kind = "digest"
       /\ ret.out.body[1].row.total_files = 0
       /\ \A n \in RateNames :
             \/ ret.out.rates[n].kind = "nan"
             \/ ret.out.rates[n].kind = "num" /\ ret.out.rates[n].tenths = 0

\* The digest of an empty today partition came back while the listings of the
\* source are not empty.
C14_Witness ==
    /\ ret.op = "validate_data_quality"
    /\ LoadedState(objs[ret.obj])
    /\ objs[ret.obj].today_data[1].rows = <<>>
    /\ objs[ret.obj].data[1].rows # <<>>
    /\ ret.out.kind = "digest"
    /\ ret.out.body[1].row.total_files = 0
    /\ ret.out.rates["success_rate"].kind = "nan"

\* The digest column that counts a status value.
StatusColumn == [FAILED |-> "failed_files", STOPPED |-> "stopped_files",
                 SUCCESS |-> "successful_files"]

\* C15: the digest counts the today partition only and gives, for every status
\* occurring among its records, the number of records with that status; the
\* per-status counts sum to total_files.
C15_StatusCountsSumToTotal ==
    (ret.op = "validate_data_quality" /\ ret.out.kind = "digest") =>
        LET view == objs[ret.obj].today_data[1].rows
            row == ret.out.body[1].row
        IN  /\ row.total_files = Len(view)
            /\ \A i \in 1..Len(view) :
                  /\ view[i].status \in DOMAIN StatusColumn
                  /\ row[StatusColumn[view[i].status]]
                       = <<Cardinality({j \in 1..Len(view) : view[j].status = view[i].status})>>
            /\ Len(view) > 0 =>
                  row.failed_files[1] + row.stopped_files[1] + row.successful_files[1]
                      = row.total_files

\* C17: no record with status "empty" and a file_size is in the relation of a loaded
\* store: the load would have been rejected (the loader has no column to flag it in).
C17_EmptyWithSizeNotLoaded ==
    \A id \in Handles :
        LoadedState(objs[id]) =>
            \A i \in 1..Len(objs[id].data[1].rows) :
                LET r == objs[id].data[1].rows[i]
                IN  ~(r.status = "empty" /\ r.file_size # <<>>)

\* What a store is loaded from: its source, the content of the two listing files of
\* its day folder and the content of the CV file of its source.
InputsOf(o) ==
    <<o.source_id, fs.files[Folder(o.day_folder)],
      fs.docs[Folder(o.datasource_folder)][o.source_id]>>
\* The same for the arguments of a construction, taken from its cache key.
InputsAt(key) == <<key[1], fs.files[key[2]], fs.docs[key[3]][key[1]]>>

\* The two stores answer every query of both tools, and the CV read, alike.
SameAnswers(x, y) ==
    /\ \A q \in LoadQueries :
          /\ query_today_data(x, q).out = query_today_data(y, q).out
          /\ query_today_and_last_weekday_data(x, q).out
               = query_today_and_last_weekday_data(y, q).out
    /\ read_data_source_cv(x) = read_data_source_cv(y)

\* C16: a newly built store answers every query as any other loaded store does that
\* was built, independently of it, from identical inputs.
C16_LoadIsDeterministic ==
    (ret.op = "construct" /\ ret.out.kind = "instance" /\ ret.out.text = "Creating new") =>
        \A b \in Handles \ {ret.obj} :
            (InputsOf(objs[b]) = InputsAt(ret.key) /\ LoadedState(objs[b]))
                => SameAnswers(objs[ret.obj], objs[b])

\* A second store was built from another day folder with the same content as the
\* folder of a loaded store, and answers a count with a table.
C16_Witness ==
    /\ ret.op = "construct" /\ ret.out.kind = "instance" /\ ret.out.text = "Creating new"
    /\ \E b \in Handles \ {ret.obj} :
          /\ InputsOf(objs[b]) = InputsAt(ret.key)
          /\ Folder(objs[b].day_folder) # ret.key[2]
          /\ LoadedState(objs[b])
    /\ query_today_and_last_weekday_data(objs[ret.obj], CountQuery).out.kind = "table"

\* C18: on a loaded store read_data_source_cv returns exactly the text that
\* construction read from the CV file of the store's source, on every call.
C18_CvIsTextRead ==
    (ret.op = "read_data_source_cv" /\ LoadedState(objs[ret.obj])) =>
        /\ ret.out.kind = "cv"
        /\ ret.out.text = ReadText(fs.docs[Folder(objs[ret.obj].datasource_folder)]
                                          [objs[ret.obj].source_id])

\* The CV of s2, a file with CR LF line ends, was returned while the store of s1
\* holds another text.
C18_Witness ==
    /\ ret.op = "read_data_source_cv"
    /\ LoadedState(objs[ret.obj])
    /\ objs[ret.obj].source_id = "s2"
    /\ ret.out.text = "cv\ntext"
    /\ \E id \in Handles : LoadedState(objs[id]) /\ objs[id].markdown_explanation = <<"cv-text">>

\* Everything a caller can ask of a store: both query tools, the CV, the digest.
Answers(o) ==
    [queries |-> [q \in LifeQueries |->
                    <<query_today_data(o, q).out, query_today_and_last_weekday_data(o, q).out>>],
     cv |-> read_data_source_cv(o),
     digest |-> validate_data_quality(o)]

\* What DataSourceToolset(source_id, d1, f1) would give with this cache and heap:
\* the exception, or the answers of the store returned.
ConstructionOf(instances, heap, source_id) ==
    LET n == New(instances, heap, source_id, AsPath("d1"), AsPath("f1"), "data_")
        i == Initialize(n.heap[n.id], fs, source_id, AsPath("d1"), AsPath("f1"), "data_",
                        NoFault)
    IN  IF i.exc # "" THEN [exc |-> i.exc, answers |-> <<>>]
        ELSE [exc |-> "", answers |-> <<Answers(i.self)>>]

\* The call just made was issued for the source: a construction of its store, an
\* operation on one of its stores, or clear_cache().
IssuedFor(call, heap, source_id) ==
    \/ call.op = "construct" /\ call.key[1] = source_id
    \/ call.op \in StoreOps \cup {"close"} /\ heap[call.obj].source_id = source_id
    \/ call.op = "clear_cache"

\* C19: an operation issued for one source changes the result of no operation on
\* the store of another source, a construction of that store included.
C19_SourcesAreIndependent ==
    [][\A a, b \in Sources :
          (a # b /\ IssuedFor(ret', objs, a)) =>
              /\ \A id \in Handles :
                    objs[id].source_id = b => Answers(objs'[id]) = Answers(objs[id])
              /\ ConstructionOf(_instances', objs', b) = ConstructionOf(_instances, objs, b)]_vars

\* The status vocabulary of the listings, as the detector prompts spell it out.
CanonicalStatuses == {"processed", "empty", "failure", "stopped", "deleted"}

\* C20: FileEntry accepts a status exactly when it is one of processed, empty,
\* failure, stopped, deleted.
C20_StatusVocabulary ==
    entry.made # <<>> =>
        (("status" \notin entry.made[1].errors) <=> (entry.obj.status \in CanonicalStatuses))

\* C21: the result of every detector that has finished is in the session state
\* under that detector's key as a result about its own source (no other source's
\* detector has overwritten it), and a synthesizer's instruction is filled only
\* with results about its own source.
C21_ResultsKeptApartBySource ==
    \A s \in Configured(session.sources) :
        /\ \A i \in DOMAIN Detectors :
              session.det[s][i] = "done" =>
                  session.state[PipelineOf(session, s).detectors[i].output_key[1]] = s
        /\ \A k \in DOMAIN session.injected[s] : session.injected[s][k] = s

\* C22: in every source pipeline the synthesizer has started only if all six
\* detectors of that source have finished; the detectors themselves finish in any
\* order.
C22_SynthesizerAfterDetectors ==
    \A s \in Configured(session.sources) :
        session.synth[s] # "idle" =>
            \A i \in DOMAIN Detectors : session.det[s][i] = "done"

\* The synthesizer of s1 is running after its six detectors, which finished in an
\* order other than the order of their creation, while detectors of s2 still run.
C22_Witness ==
    /\ session.sources = <<"s1", "s2">>
    /\ session.synth["s1"] = "running"
    /\ \A i \in DOMAIN Detectors : session.det["s1"][i] = "done"
    /\ session.det["s2"][1] = "running"
    /\ session.det["s2"][6] = "done"

\* C23: the final synthesis agent has started only if the pipeline of every
\* configured source has finished, detectors and synthesizer.
C23_FinalSynthesisAfterAllSources ==
    session.final # "idle" =>
        \A s \in Configured(session.sources) :
            /\ session.synth[s] = "done"
            /\ \A i \in DOMAIN Detectors : session.det[s][i] = "done"

\* The final synthesis agent is running on two sources.
C23_Witness ==
    /\ session.sources = <<"s1", "s2">>
    /\ session.final = "running"
    /\ \A s \in {"s1", "s2"} : session.synth[s] = "done"

\* C24: once _run_analysis has read the events of the run, a finished event of the
\* pipeline's final synthesis agent means that the report was found and the command
\* completed with exit code 0, and the exit with "No report generated" happens only
\* when that agent emitted no finished event.
C24_FinalEventIsTheReport ==
    session.outcome # <<>> =>
        LET emitted == Event(session.pipeline.final.name, TRUE) \in session.events
            outcome == session.outcome[1]
        IN  /\ emitted => (outcome.report_found /\ outcome.exit_code = 0)
            /\ (outcome.exit_code = 1 /\ outcome.messages[1] = "No report generated")
                   => ~emitted

\* C25: every instance held in the cache is a loaded store: a construction that
\* raised has left no entry under its key, and no construction hands out an
\* instance that was closed.
C25_CachedInstancesAreLoaded ==
    /\ \A key \in DOMAIN _instances : LoadedState(objs[_instances[key]])
    /\ (ret.op = "construct" /\ ret.out.kind = "raised") => ret.key \notin DOMAIN _instances
    /\ (ret.op = "construct" /\ ret.out.kind = "instance") => ~ClosedState(objs[ret.obj])

\* C26: the get_cache_info() that follows a clear_cache() reports zero cached
\* instances, clear_cache() leaves every instance as it was, and the first
\* construction after it with a tuple that had been handed out before creates a
\* new instance, loads it, and leaves the instances handed out earlier as they were.
C26_ClearCacheStartsAfresh ==
    [][ /\ (ret.op = "clear_cache" /\ ret'.op = "get_cache_info")
               => (ret'.out.cached_instances = 0 /\ ret'.out.cached_keys = {})
        /\ (ret'.op = "clear_cache") => (objs' = objs)
        /\ \A key \in {t[1] : t \in issued} :
              (key \notin DOMAIN _instances /\ key \in DOMAIN _instances')
                  => /\ ret'.op = "construct" /\ ret'.key = key
                     /\ ret'.out.kind = "instance" /\ ret'.out.text = "Creating new"
                     /\ ret'.obj \notin Handles
                     /\ LoadedState(objs'[ret'.obj])
                     /\ loads'[ret'.obj] = 1
                     /\ \A id \in Handles : objs'[id] = objs[id]
      ]_vars

\* A tuple was constructed again after clear_cache(): a new, loaded instance was
\* returned while the instance handed out before, closed meanwhile, is unchanged.
C26_Witness ==
    /\ ret.op = "construct"
    /\ ret.out.kind = "instance"
    /\ ret.out.text = "Creating new"
    /\ LoadedState(objs[ret.obj])
    /\ \E t \in issued : t[1] = ret.key /\ t[2] # ret.obj /\ ClosedState(objs[t[2]])

\* C27: the unified relation built by from_day_folder holds the records of the
\* source from the today listing in their input order, then those from the
\* last_weekday listing in their input order; every row keeps the value of every
\* key of its record and carries the tag of its partition.
C27_UnifiedRelationKeepsOrder ==
    \A id \in 1..Len(objs) :
        objs[id].analyzer # <<>> =>
            LET today == ListingRecords(id, "today")
                last == ListingRecords(id, "last_weekday")
                rows == objs[id].analyzer[1].data.rows
            IN  /\ Len(rows) = Len(today) + Len(last)
                /\ \A i \in 1..Len(rows) :
                      LET file_data == IF i <= Len(today) THEN today[i]
                                       ELSE last[i - Len(today)]
                      IN  /\ rows[i]["from"] = IF i <= Len(today) THEN "today"
                                               ELSE "last_weekday"
                          /\ rows[i]["source_id"] = objs[id].source_id
                          /\ \A k \in RecordKeys(file_data) : rows[i][k] = file_data[k]

\* A store was built from a today listing with two records of its source under
\* different filenames and a last_weekday listing with one.
C27_Witness ==
    \E id \in 1..Len(objs) :
        /\ objs[id].analyzer # <<>>
        /\ Len(ListingRecords(id, "today")) = 2
        /\ Len(ListingRecords(id, "last_weekday")) = 1
        /\ ListingRecords(id, "today")[1].filename # ListingRecords(id, "today")[2].filename
        /\ Len(objs[id].analyzer[1].data.rows) = 3

\* The conditions on rows and file_size that an entry has to meet.
SizeConsistent(rows, status, file_size) ==
    /\ rows >= 0
    /\ status = "empty" => file_size = <<>>
    /\ (status = "processed" /\ rows > 0) => file_size # <<>>
    /\ file_size # <<>> => file_size[1] >= 0

\* C28: every FileEntry that was constructed without a validation error has
\* rows >= 0 and a file_size consistent with its status, and an input that breaks
\* one of these conditions is rejected.
C28_EntryIsSizeConsistent ==
    entry.made # <<>> =>
        /\ entry.made[1].errors = {} =>
              SizeConsistent(entry.made[1].rows, entry.made[1].status, entry.made[1].file_size)
        /\ ~SizeConsistent(entry.obj.rows, entry.obj.status, entry.obj.file_size) =>
              entry.made[1].errors # {}

CvFiles ==
    {f \in cli.folders[cli.cv_folder].files :
        Len(f) >= 2 /\ SubSeq(f, Len(f) - 1, Len(f)) = <<NativeMark, ".md">>}
NthCvFile(i) == CHOOSE f \in CvFiles : Cardinality({g \in CvFiles : Before(g, f)}) = i - 1

\* id is text with every "_native" taken out and everything else left in place.
IsWithoutMark(text, id) ==
    LET kept == {i \in DOMAIN text : text[i] # NativeMark}
    IN  /\ Len(id) = Cardinality(kept)
        /\ \A i \in kept : id[Cardinality({j \in kept : j <= i})] = text[i]

\* C30: discovery raises FileNotFoundError when one of the two folders is missing
\* and ValueError when the CV folder holds no *_native.md file; otherwise it returns
\* one configuration per *_native.md file, in ascending order of the file names,
\* whose source_id is the file's stem without "_native"; with --max-sources N the
\* command line keeps the first N of them, without it all.
C30_OneConfigPerCvFileInOrder ==
    cli.found # None =>
        LET found == cli.found[1]
            both == /\ cli.folders[cli.cv_folder].exists
                    /\ cli.folders[cli.json_folder].exists
        IN  /\ ~both => (~found.ok /\ found.exc = "FileNotFoundError")
            /\ (both /\ CvFiles = {}) => (~found.ok /\ found.exc = "ValueError")
            /\ (both /\ CvFiles # {}) =>
                  /\ found.ok
                  /\ Len(Val(found)) = Cardinality(CvFiles)
                  /\ \A i \in 1..Len(Val(found)) :
                        /\ IsWithoutMark(SubSeq(NthCvFile(i), 1, Len(NthCvFile(i)) - 1),
                                         Val(found)[i].source_id)
                        /\ Val(found)[i].day_folder = cli.json_folder
                        /\ Val(found)[i].datasource_folder = cli.cv_folder
                  /\ cli.sources # None
                  /\ LET n == IF cli.max_sources = None
                                 \/ cli.max_sources[1] > Len(Val(found))
                              THEN Len(Val(found)) ELSE cli.max_sources[1]
                     IN  /\ Len(cli.sources[1]) = n
                         /\ \A i \in 1..n : cli.sources[1][i] = Val(found)[i]

\* Four CV files among other files were discovered, one of them with "_native"
\* twice in its name, and --max-sources 2 kept the first two configurations.
C30_Witness ==
    /\ cli.found # None
    /\ cli.found[1].ok
    /\ Cardinality(CvFiles) = 4
    /\ cli.folders[cli.cv_folder].files # CvFiles
    /\ cli.max_sources = <<2>>
    /\ cli.sources # None
    /\ Len(cli.sources[1]) = 2
    /\ cli.sources[1][1].source_id = <<"195385">>
    /\ cli.sources[1][2].source_id = <<"220504">>

====
